---- MODULE Spec2Model ----
(***************************************************************************)
(* A model of main.go: the PDF scraping pipeline of the RadioMasterRC      *)
(* documentation repository.  Strings are sequences of one-character       *)
(* strings, so that lower-casing, splitting, regular-expression            *)
(* replacement and substring search are computed, not assumed.             *)
(***************************************************************************)
EXTENDS Integers, Sequences, FiniteSets, TLC

VARIABLES
    sanUrl,       \* urlToFilename: the rawURL argument
    sanName,      \* urlToFilename: the returned name
    sanPc,        \* "input" before the call, "done" after it
    seed,         \* main: the urls slice literal
    urls,         \* main: urls after removeDuplicatesFromSlice
    urlsAgain,    \* removeDuplicatesFromSlice applied to its own result
    ddPc,         \* "input", "once", "twice"
    htmlContent,  \* the parse tree of the markup handed to extractPDFUrls
    parseError,   \* whether html.Parse returned an error
    pdfUrls,      \* the slice extractPDFUrls returned
    exPc,         \* "build", "done"
    store,        \* the output directory: file name -> file content
    last,         \* the record of the latest downloadPDF call
    prev,         \* url and effect of the downloadPDF call before it
    pc,           \* main's position
    urlIdx,       \* main: index of the page in urls
    ctx,          \* scrapePageHTMLWithChrome: state of the three contexts
    cancelLog,    \* scrapePageHTMLWithChrome: cancel functions called, in order
    runError,     \* scrapePageHTMLWithChrome: chromedp.Run's error ("nil" if none)
    renderedHTML, \* scrapePageHTMLWithChrome: the captured markup's tree
    linkIdx,      \* main: index of the link in pdfUrls
    attempts      \* the urls downloadPDF was called with for the current page

sanVars == <<sanUrl, sanName, sanPc>>
ddVars == <<seed, urls, urlsAgain, ddPc>>
exVars == <<htmlContent, parseError, pdfUrls, exPc>>
fetchVars == <<store, last, prev>>
mainVars == <<pc, urlIdx, ctx, cancelLog, runError, renderedHTML, linkIdx, attempts>>

\* what the pipeline leaves alone
pipeIdle == <<sanUrl, sanName, sanPc, urlsAgain, ddPc, exPc>>

vars ==
    <<sanUrl, sanName, sanPc, seed, urls, urlsAgain, ddPc, htmlContent,
      parseError, pdfUrls, exPc, store, last, prev, pc, urlIdx, ctx,
      cancelLog, runError, renderedHTML, linkIdx, attempts>>

----------------------------------------------------------------------------
(* Library string functions, as main.go uses them.                          *)

UpperSeq ==
    <<"A","B","C","D","E","F","G","H","I","J","K","L","M",
      "N","O","P","Q","R","S","T","U","V","W","X","Y","Z">>

LowerSeq ==
    <<"a","b","c","d","e","f","g","h","i","j","k","l","m",
      "n","o","p","q","r","s","t","u","v","w","x","y","z">>

DigitSeq == <<"0","1","2","3","4","5","6","7","8","9">>

Range(s) == {s[i] : i \in 1..Len(s)}

\* the lower-case letter of each upper-case letter
LowerOf ==
    [c \in Range(UpperSeq) |->
        LowerSeq[CHOOSE i \in 1..Len(UpperSeq) : UpperSeq[i] = c]]

\* unicode.ToLower on one character
LowerChar(c) == IF c \in DOMAIN LowerOf THEN LowerOf[c] ELSE c

\* strings.ToLower
ToLower(s) == [i \in 1..Len(s) |-> LowerChar(s[i])]

\* strings.HasPrefix
HasPrefix(s, p) == Len(p) <= Len(s) /\ SubSeq(s, 1, Len(p)) = p

\* strings.Contains
Contains(s, sub) ==
    \E i \in 1..(Len(s) + 1) :
        i + Len(sub) - 1 <= Len(s) /\ SubSeq(s, i, i + Len(sub) - 1) = sub

\* strings.Split(s, sep)[0] for a one-character separator
SplitFirst(s, sep) ==
    IF \E i \in 1..Len(s) : s[i] = sep
    THEN SubSeq(s, 1, (CHOOSE i \in 1..Len(s) :
                          s[i] = sep /\ \A j \in 1..(i - 1) : s[j] # sep) - 1)
    ELSE s

\* strings.Trim(s, cutset) for a one-character cutset
Trim(s, c) ==
    IF \A i \in 1..Len(s) : s[i] = c
    THEN <<>>
    ELSE LET first == CHOOSE i \in 1..Len(s) :
                          s[i] # c /\ \A j \in 1..(i - 1) : s[j] = c
             final == CHOOSE i \in 1..Len(s) :
                          s[i] # c /\ \A j \in (i + 1)..Len(s) : s[j] = c
         IN  SubSeq(s, first, final)

\* strings.ReplaceAll(s, old, ""): one left-to-right pass over the
\* non-overlapping occurrences of old
RECURSIVE ReplaceAllEmpty(_, _)
ReplaceAllEmpty(s, old) ==
    IF Len(s) < Len(old) \/ Len(old) = 0 THEN s
    ELSE IF HasPrefix(s, old)
         THEN ReplaceAllEmpty(SubSeq(s, Len(old) + 1, Len(s)), old)
         ELSE <<s[1]>> \o ReplaceAllEmpty(Tail(s), old)

\* filepath.Base (Unix separators)
RECURSIVE StripTrailingSlashes(_)
StripTrailingSlashes(p) ==
    IF Len(p) > 0 /\ p[Len(p)] = "/"
    THEN StripTrailingSlashes(SubSeq(p, 1, Len(p) - 1))
    ELSE p

Base(path) ==
    IF path = <<>> THEN <<".">>
    ELSE LET p == StripTrailingSlashes(path)
             q == IF \E i \in 1..Len(p) : p[i] = "/"
                  THEN SubSeq(p, (CHOOSE i \in 1..Len(p) :
                                     p[i] = "/" /\ \A j \in (i + 1)..Len(p) : p[j] # "/") + 1,
                              Len(p))
                  ELSE p
         IN  IF q = <<>> THEN <<"/">> ELSE q

\* filepath.Ext: the suffix from the last dot of the last path element
Ext(path) ==
    IF \E i \in 1..Len(path) :
           path[i] = "." /\ \A j \in i..Len(path) : path[j] # "/"
    THEN LET i == CHOOSE k \in 1..Len(path) :
                      /\ path[k] = "."
                      /\ \A j \in k..Len(path) : path[j] # "/"
                      /\ \A j \in (k + 1)..Len(path) : path[j] # "."
         IN  SubSeq(path, i, Len(path))
    ELSE <<>>

----------------------------------------------------------------------------
(* Filename sanitizer.                                                      *)

AlnumLower == Range(LowerSeq) \cup Range(DigitSeq)

\* regexp [^a-z0-9] replaced by "_", character by character
ReplaceNonAlnum(s) ==
    [i \in 1..Len(s) |-> IF s[i] \in AlnumLower THEN s[i] ELSE "_"]

\* regexp _+ replaced by "_"
RECURSIVE CollapseUnderscores(_)
CollapseUnderscores(s) ==
    IF Len(s) <= 1 THEN s
    ELSE IF s[1] = "_" /\ s[2] = "_"
         THEN CollapseUnderscores(Tail(s))
         ELSE <<s[1]>> \o CollapseUnderscores(Tail(s))

getFileExtension(path) == Ext(path)

removeSubstring(input, toRemove) == ReplaceAllEmpty(input, toRemove)

getFilename(path) == Base(path)

invalidSubstrings ==
    << <<"_","p","d","f">>, <<"_","z","i","p">>, <<"_","t","x","t">> >>

RECURSIVE RemoveEach(_, _)
RemoveEach(safe, subs) ==
    IF subs = <<>> THEN safe
    ELSE RemoveEach(removeSubstring(safe, Head(subs)), Tail(subs))

\* the two regular-expression replacements, the trim and the removal loop
CleanName(lower) ==
    RemoveEach(Trim(CollapseUnderscores(ReplaceNonAlnum(lower)), "_"),
               invalidSubstrings)

\* the final test: the captured extension is appended to a name without one
WithExtension(safe, ext) ==
    IF getFileExtension(safe) = <<>> THEN safe \o ext ELSE safe

\* urlToFilename from the point where lower holds the base name
FromBasename(lower) == WithExtension(CleanName(lower), getFileExtension(lower))

urlToFilename(rawURL) ==
    FromBasename(getFilename(SplitFirst(ToLower(rawURL), "?")))

----------------------------------------------------------------------------
(* Seed deduplication.                                                      *)

RECURSIVE DedupLoop(_, _, _)
DedupLoop(slice, check, newReturnSlice) ==
    IF slice = <<>> THEN newReturnSlice
    ELSE LET content == Head(slice)
         IN  IF content \notin check
             THEN DedupLoop(Tail(slice), check \cup {content},
                            Append(newReturnSlice, content))
             ELSE DedupLoop(Tail(slice), check, newReturnSlice)

\* the same loop with the "check[content] = true" assignment lost
RECURSIVE DedupLoopNoMark(_, _, _)
DedupLoopNoMark(slice, check, newReturnSlice) ==
    IF slice = <<>> THEN newReturnSlice
    ELSE DedupLoopNoMark(Tail(slice), check, Append(newReturnSlice, Head(slice)))

removeDuplicatesFromSlice_NoMark(slice) == DedupLoopNoMark(slice, {}, <<>>)

removeDuplicatesFromSlice(slice) == DedupLoop(slice, {}, <<>>)

SeedUrls ==
    {"https://radiomasterrc.com/pages/user-manuals",
     "https://radiomasterrc.com/pages/downloads",
     "pages/user-manuals"}

\* url.ParseRequestURI rejects the empty string and a relative path
InvalidUris == {"", "pages/user-manuals"}

isUrlValid(uri) == uri \notin InvalidUris

----------------------------------------------------------------------------
(* Link extractor.  A parse tree is a sequence of nodes; node 1 is the      *)
(* document node, every other node names its parent, and siblings stand in  *)
(* document order (FirstChild, NextSibling) by increasing index.            *)

Whitespace == {" ", "\t", "\n", "\r", "\f"}

\* strings.TrimSpace
TrimSpace(s) ==
    IF \A i \in 1..Len(s) : s[i] \in Whitespace
    THEN <<>>
    ELSE LET first == CHOOSE i \in 1..Len(s) :
                          s[i] \notin Whitespace /\ \A j \in 1..(i - 1) : s[j] \in Whitespace
             final == CHOOSE i \in 1..Len(s) :
                          s[i] \notin Whitespace /\ \A j \in (i + 1)..Len(s) : s[j] \in Whitespace
         IN  SubSeq(s, first, final)

PdfMarker == <<".", "p", "d", "f">>

\* the loop over currentNode.Attr
RECURSIVE AttrLinks(_)
AttrLinks(attrs) ==
    IF attrs = <<>> THEN <<>>
    ELSE LET attribute == Head(attrs)
             link == TrimSpace(attribute.Val)
         IN  (IF attribute.Key = "href" /\ Contains(ToLower(link), PdfMarker)
              THEN <<link>> ELSE <<>>) \o AttrLinks(Tail(attrs))

\* the links of one node: the first half of exploreHTML's body, without
\* the lower-casing of the link
NodeLinks_CaseSensitive(node) ==
    IF node.Type = "ElementNode" /\ node.Data = "a"
    THEN SelectSeq([i \in 1..Len(node.Attr) |-> TrimSpace(node.Attr[i].Val)],
                   LAMBDA v : Contains(v, PdfMarker))
    ELSE <<>>

\* the links of one node: the first half of exploreHTML's body
NodeLinks(node) ==
    IF node.Type = "ElementNode" /\ node.Data = "a"
    THEN AttrLinks(node.Attr)
    ELSE <<>>

\* exploreHTML: the node's own links, then its children's from FirstChild
\* along NextSibling (ExploreFrom walks the siblings from index c on)
RECURSIVE exploreHTML(_, _), ExploreFrom(_, _, _)
exploreHTML(tree, n) == NodeLinks(tree[n]) \o ExploreFrom(tree, n, n + 1)

ExploreFrom(tree, n, c) ==
    IF c > Len(tree) THEN <<>>
    ELSE (IF tree[c].parent = n THEN exploreHTML(tree, c) ELSE <<>>)
         \o ExploreFrom(tree, n, c + 1)

extractPDFUrls(tree, parseErr) ==
    IF parseErr THEN <<>> ELSE exploreHTML(tree, 1)

----------------------------------------------------------------------------
(* Document fetcher.  The output directory is the function store from the   *)
(* path of each regular file in it to the file's bytes.  A response is      *)
(* what the network and the file system answer to one attempt.              *)

outputDirectory == <<"P","D","F","s","/">>

CtPdf == <<"a","p","p","l","i","c","a","t","i","o","n","/","p","d","f">>
CtBinary == <<"b","i","n","a","r","y","/","o","c","t","e","t","-","s","t","r","e","a","m">>
CtOctet == <<"a","p","p","l","i","c","a","t","i","o","n","/","o","c","t","e","t","-","s","t","r","e","a","m">>
CtHtml == <<"t","e","x","t","/","h","t","m","l">>
CtPdfParam == <<"a","p","p","l","i","c","a","t","i","o","n","/","p","d","f",";","v","=","1">>
CtNone == <<>>

ContentTypes == {CtPdf, CtBinary, CtOctet, CtHtml, CtPdfParam, CtNone}

Bodies == {<<>>, <<1, 2>>, <<3>>}

StatusOK == 200

\* filepath.Join(dir, name) for a name without separators: Clean drops the
\* directory's trailing slash, and an empty or "." name leaves the
\* directory itself
Join(dir, name) ==
    IF name = <<>> \/ name = <<".">>
    THEN StripTrailingSlashes(dir)
    ELSE StripTrailingSlashes(dir) \o <<"/">> \o name

IsDirectory(path) == path = StripTrailingSlashes(outputDirectory)

\* the same check never finding the file
fileExists_Never(files, filename) == FALSE

\* os.Stat succeeds on the directory and on the files in it
fileExists(files, filename) ==
    IF IsDirectory(filename) THEN FALSE
    ELSE filename \in DOMAIN files

\* the file created and nothing written to it
WriteFile_CreateOnly(files, path, data) ==
    [p \in (DOMAIN files) \cup {path} |-> IF p = path THEN <<>> ELSE files[p]]

\* os.Create followed by the write of data
WriteFile(files, path, data) ==
    [p \in (DOMAIN files) \cup {path} |-> IF p = path THEN data ELSE files[p]]

\* the content-type test accepting every application/ type
ContentTypeAccepted_AnyApplication(contentType) ==
    Contains(contentType, <<"a","p","p","l","i","c","a","t","i","o","n","/">>)
    \/ Contains(contentType, CtBinary)

\* the zero-byte test comparing with the wrong bound
IsEmptyDownload_Negative(bytesWritten) == bytesWritten < 0

\* the zero-byte test of downloadPDF
IsEmptyDownload(bytesWritten) == bytesWritten = 0

\* the content-type test of downloadPDF
ContentTypeAccepted(contentType) ==
    Contains(contentType, CtBinary) \/ Contains(contentType, CtPdf)

\* what one call did: the directory after it, its destination path, the
\* value returned, the log message it ended with and whether the GET was issued
Outcome(files, path, ret, outcome, requested) ==
    [store |-> files, path |-> path, ret |-> ret, outcome |-> outcome,
     requested |-> requested]

\* downloadPDF after the existence check: the request and what follows it
Retrieve(files, fullFilePath, resp) ==
    IF resp.requestError
    THEN Outcome(files, fullFilePath, FALSE, "request_failed", TRUE)
    ELSE IF resp.StatusCode # StatusOK
    THEN Outcome(files, fullFilePath, FALSE, "bad_status", TRUE)
    ELSE IF ~ContentTypeAccepted(resp.ContentType)
    THEN Outcome(files, fullFilePath, FALSE, "bad_content_type", TRUE)
    ELSE IF resp.copyError
    THEN Outcome(files, fullFilePath, FALSE, "read_failed", TRUE)
    ELSE IF IsEmptyDownload(Len(resp.Body))
    THEN Outcome(files, fullFilePath, FALSE, "empty_body", TRUE)
    ELSE IF resp.fileCreateError \/ IsDirectory(fullFilePath)
    THEN Outcome(files, fullFilePath, FALSE, "create_failed", TRUE)
    ELSE IF resp.writeError
    THEN Outcome(WriteFile(files, fullFilePath, SubSeq(resp.Body, 1, resp.nWritten)),
                 fullFilePath, FALSE, "write_failed", TRUE)
    ELSE Outcome(WriteFile(files, fullFilePath, resp.Body), fullFilePath, TRUE, "success", TRUE)

\* downloadPDF from the existence check on, without that check
FromPath_NoExistenceCheck(files, fullFilePath, resp) ==
    Retrieve(files, fullFilePath, resp)

\* downloadPDF from the existence check on
FromPath(files, fullFilePath, resp) ==
    IF fileExists(files, fullFilePath)
    THEN Outcome(files, fullFilePath, FALSE, "skipped", FALSE)
    ELSE Retrieve(files, fullFilePath, resp)

downloadPDF(files, pdfURL, dir, resp) ==
    FromPath(files, Join(dir, ToLower(urlToFilename(pdfURL))), resp)

\* what one attempt can meet
RespBase ==
    [requestError |-> FALSE, StatusCode |-> StatusOK, ContentType |-> CtPdf,
     Body |-> <<1, 2>>, copyError |-> FALSE, fileCreateError |-> FALSE,
     writeError |-> FALSE, nWritten |-> 0]

NoResponse ==
    [requestError |-> FALSE, StatusCode |-> 0, ContentType |-> <<>>,
     Body |-> <<>>, copyError |-> FALSE, fileCreateError |-> FALSE,
     writeError |-> FALSE, nWritten |-> 0]

Responses ==
    {[RespBase EXCEPT !.requestError = TRUE],
     [RespBase EXCEPT !.StatusCode = 404],
     [RespBase EXCEPT !.copyError = TRUE],
     [RespBase EXCEPT !.fileCreateError = TRUE],
     [RespBase EXCEPT !.ContentType = CtBinary, !.Body = <<3>>],
     [RespBase EXCEPT !.ContentType = CtPdfParam]}
    \cup {[RespBase EXCEPT !.ContentType = c, !.Body = b] :
             c \in {CtPdf, CtOctet, CtHtml, CtNone}, b \in Bodies}
    \cup UNION {{[RespBase EXCEPT !.Body = b, !.writeError = TRUE, !.nWritten = n] :
                    n \in 0..(Len(b) - 1)} : b \in Bodies \ {<<>>}}

\* one response for each way an attempt can end
PipeResponses ==
    {[RespBase EXCEPT !.requestError = TRUE],
     [RespBase EXCEPT !.StatusCode = 404],
     [RespBase EXCEPT !.ContentType = CtHtml],
     [RespBase EXCEPT !.copyError = TRUE],
     [RespBase EXCEPT !.Body = <<>>],
     [RespBase EXCEPT !.fileCreateError = TRUE],
     [RespBase EXCEPT !.writeError = TRUE, !.nWritten = 1],
     RespBase,
     [RespBase EXCEPT !.ContentType = CtBinary, !.Body = <<3>>]}

UrlUpper == <<"/","m","/","A",".","P","D","F">>
UrlQuery == <<"/","m","/","a",".","p","d","f","?","v","=","2">>
UrlOther == <<"/","b",".","p","d","f">>
UrlQueryOnly == <<"?","f","=","a",".","p","d","f">>

HrefSpaced == <<" ","/","m","/","a",".","P","d","f","?","v","=","2"," ">>
HrefHtml == <<"/","c",".","h","t","m","l">>
HrefNoDot == <<"/","p","d","f","/","c">>

FetchUrls == {UrlUpper, UrlQuery, UrlOther, UrlQueryOnly}

NoFile == [exists |-> FALSE, data |-> <<>>]

FileAt(files, path) ==
    IF path \in DOMAIN files
    THEN [exists |-> TRUE, data |-> files[path]]
    ELSE NoFile

NoCall ==
    [called |-> FALSE, url |-> <<>>, path |-> <<>>, resp |-> NoResponse,
     outcome |-> "none", ret |-> FALSE, requested |-> FALSE, changed |-> FALSE,
     before |-> NoFile, after |-> NoFile]

NoPrev == [called |-> FALSE, url |-> <<>>, ret |-> FALSE, changed |-> FALSE]

\* one call downloadPDF(pdfURL, outputDirectory) meeting resp, and the
\* record of what it did to the directory
Download(pdfURL, resp) ==
    \E r \in {downloadPDF(store, pdfURL, outputDirectory, resp)} :
        /\ store' = r.store
        /\ last' = [called |-> TRUE, url |-> pdfURL, path |-> r.path,
                    resp |-> IF r.requested THEN resp ELSE NoResponse,
                    outcome |-> r.outcome, ret |-> r.ret,
                    requested |-> r.requested, changed |-> r.store # store,
                    before |-> FileAt(store, r.path),
                    after |-> FileAt(r.store, r.path)]
        /\ prev' = [called |-> last.called, url |-> last.url,
                    ret |-> last.ret, changed |-> last.changed]

EmptyStore == [p \in {} |-> <<>>]

----------------------------------------------------------------------------
(* Parse trees: the nodes html.Parse builds.                                *)

DocNode == [Type |-> "DocumentNode", Data |-> "", Attr |-> <<>>, parent |-> 0]

Elem(data, attrs, parent) ==
    [Type |-> "ElementNode", Data |-> data, Attr |-> attrs, parent |-> parent]

Text(data, parent) ==
    [Type |-> "TextNode", Data |-> data, Attr |-> <<>>, parent |-> parent]

Attribute(namespace, key, val) == [Namespace |-> namespace, Key |-> key, Val |-> val]

Href(val) == Attribute("", "href", val)

\* the tree of the empty markup: html, head and body under the document
EmptyDoc == <<DocNode, Elem("html", <<>>, 1), Elem("head", <<>>, 2), Elem("body", <<>>, 2)>>

\* body: a, div(a), a -- the nested anchor is the last node and the
\* second link
PageManuals ==
    EmptyDoc \o <<Elem("a", <<Href(UrlUpper)>>, 4),
                  Elem("div", <<>>, 4),
                  Elem("a", <<Href(UrlOther)>>, 4),
                  Elem("a", <<Href(HrefSpaced)>>, 6)>>

PageDuplicates ==
    EmptyDoc \o <<Elem("a", <<Href(UrlOther)>>, 4),
                  Elem("a", <<Href(HrefHtml)>>, 4),
                  Elem("a", <<Href(UrlOther)>>, 4)>>

PageNoLinks == EmptyDoc \o <<Elem("a", <<Href(HrefHtml)>>, 4)>>

Pages == {PageManuals, PageDuplicates, PageNoLinks}

----------------------------------------------------------------------------
(* Page renderer: scrapePageHTMLWithChrome, step by step.                   *)

NoContexts == [allocator |-> "none", timeout |-> "none", browser |-> "none"]

\* one cancel function: the context is released and the call is logged
Cancel(s, name) ==
    [ctx |-> [s.ctx EXCEPT ![name] = "released"], log |-> Append(s.log, name)]

\* the deferred function calling the cancel functions outermost first
deferredCleanup_AllocatorFirst(s) ==
    Cancel(Cancel(Cancel(s, "allocator"), "timeout"), "browser")

\* the deferred function of scrapePageHTMLWithChrome
deferredCleanup(s) ==
    Cancel(Cancel(Cancel(s, "browser"), "timeout"), "allocator")

\* the 5-minute timeout fires: the timeout context and its child are done
Expire(c) == [c EXCEPT !.timeout = "done", !.browser = "done"]

\* NewExecAllocator, WithTimeout, NewContext and the declaration of
\* renderedHTML
ScrapeBegin ==
    /\ pc = "loop"
    /\ urlIdx <= Len(urls)
    /\ isUrlValid(urls[urlIdx])
    /\ ctx' = [allocator |-> "live", timeout |-> "live", browser |-> "live"]
    /\ cancelLog' = <<>>
    /\ runError' = "nil"
    /\ renderedHTML' = EmptyDoc
    /\ attempts' = <<>>
    /\ pc' = "navigate"
    /\ UNCHANGED <<urlIdx, linkIdx, seed, urls, htmlContent, parseError, pdfUrls>>
    /\ UNCHANGED fetchVars
    /\ UNCHANGED pipeIdle

\* chromedp.Navigate, the first action of chromedp.Run
ScrapeNavigate ==
    /\ pc = "navigate"
    /\ \/ /\ pc' = "sleep"
          /\ UNCHANGED <<runError, ctx>>
       \/ /\ runError' \in {"allocate_error", "navigate_error"}
          /\ pc' = "return"
          /\ UNCHANGED ctx
       \/ /\ runError' = "deadline_exceeded"
          /\ ctx' = Expire(ctx)
          /\ pc' = "return"
    /\ UNCHANGED <<urlIdx, cancelLog, renderedHTML, linkIdx, attempts,
                   seed, urls, htmlContent, parseError, pdfUrls>>
    /\ UNCHANGED fetchVars
    /\ UNCHANGED pipeIdle

\* chromedp.Sleep
ScrapeSleep ==
    /\ pc = "sleep"
    /\ \/ /\ pc' = "capture"
          /\ UNCHANGED <<runError, ctx>>
       \/ /\ runError' = "deadline_exceeded"
          /\ ctx' = Expire(ctx)
          /\ pc' = "return"
    /\ UNCHANGED <<urlIdx, cancelLog, renderedHTML, linkIdx, attempts,
                   seed, urls, htmlContent, parseError, pdfUrls>>
    /\ UNCHANGED fetchVars
    /\ UNCHANGED pipeIdle

\* chromedp.OuterHTML
ScrapeOuterHTML ==
    /\ pc = "capture"
    /\ \/ /\ renderedHTML' \in Pages
          /\ pc' = "return"
          /\ UNCHANGED <<runError, ctx>>
       \/ /\ runError' = "capture_error"
          /\ pc' = "return"
          /\ UNCHANGED <<renderedHTML, ctx>>
       \/ /\ runError' = "deadline_exceeded"
          /\ ctx' = Expire(ctx)
          /\ pc' = "return"
          /\ UNCHANGED renderedHTML
    /\ UNCHANGED <<urlIdx, cancelLog, linkIdx, attempts,
                   seed, urls, htmlContent, parseError, pdfUrls>>
    /\ UNCHANGED fetchVars
    /\ UNCHANGED pipeIdle

\* either return statement, then the deferred function; main receives the
\* result in htmlContent
ScrapeReturn ==
    /\ pc = "return"
    /\ htmlContent' = IF runError # "nil" THEN EmptyDoc ELSE renderedHTML
    /\ LET s == deferredCleanup([ctx |-> ctx, log |-> cancelLog])
       IN  ctx' = s.ctx /\ cancelLog' = s.log
    /\ pc' = "extract"
    /\ UNCHANGED <<urlIdx, runError, renderedHTML, linkIdx, attempts,
                   seed, urls, parseError, pdfUrls>>
    /\ UNCHANGED fetchVars
    /\ UNCHANGED pipeIdle

----------------------------------------------------------------------------
(* main: the loop over the seed urls and, for each page, over its links.    *)

\* urls = removeDuplicatesFromSlice(urls)
MainDedup ==
    /\ pc = "start"
    /\ urls' = removeDuplicatesFromSlice(seed)
    /\ urlIdx' = 1
    /\ pc' = "loop"
    /\ UNCHANGED <<ctx, cancelLog, runError, renderedHTML, linkIdx, attempts,
                   seed, htmlContent, parseError, pdfUrls>>
    /\ UNCHANGED fetchVars
    /\ UNCHANGED pipeIdle

\* the range loop over urls: a url that is not valid is passed over
MainSkipInvalid ==
    /\ pc = "loop"
    /\ urlIdx <= Len(urls)
    /\ ~isUrlValid(urls[urlIdx])
    /\ urlIdx' = urlIdx + 1
    /\ UNCHANGED <<pc, ctx, cancelLog, runError, renderedHTML, linkIdx, attempts,
                   seed, urls, htmlContent, parseError, pdfUrls>>
    /\ UNCHANGED fetchVars
    /\ UNCHANGED pipeIdle

\* pdfUrls := extractPDFUrls(htmlContent)
MainExtract ==
    /\ pc = "extract"
    /\ parseError' \in BOOLEAN
    /\ pdfUrls' = extractPDFUrls(htmlContent, parseError')
    /\ linkIdx' = 1
    /\ pc' = "download"
    /\ UNCHANGED <<urlIdx, ctx, cancelLog, runError, renderedHTML, attempts,
                   seed, urls, htmlContent>>
    /\ UNCHANGED fetchVars
    /\ UNCHANGED pipeIdle

\* the range loop over pdfUrls giving up after an attempt that returned
\* false
MainDownload_StopAtFailure ==
    /\ pc = "download"
    /\ linkIdx <= Len(pdfUrls)
    /\ \E resp \in PipeResponses : Download(pdfUrls[linkIdx], resp)
    /\ attempts' = Append(attempts, pdfUrls[linkIdx])
    /\ linkIdx' = IF last'.ret THEN linkIdx + 1 ELSE Len(pdfUrls) + 1
    /\ UNCHANGED <<pc, urlIdx, ctx, cancelLog, runError, renderedHTML,
                   seed, urls, htmlContent, parseError, pdfUrls>>
    /\ UNCHANGED pipeIdle

\* one iteration of the range loop over pdfUrls
MainDownload ==
    /\ pc = "download"
    /\ linkIdx <= Len(pdfUrls)
    /\ \E resp \in PipeResponses : Download(pdfUrls[linkIdx], resp)
    /\ attempts' = Append(attempts, pdfUrls[linkIdx])
    /\ linkIdx' = linkIdx + 1
    /\ UNCHANGED <<pc, urlIdx, ctx, cancelLog, runError, renderedHTML,
                   seed, urls, htmlContent, parseError, pdfUrls>>
    /\ UNCHANGED pipeIdle

\* the range loop over pdfUrls ends: the page is finished
MainPageDone ==
    /\ pc = "download"
    /\ linkIdx > Len(pdfUrls)
    /\ pc' = "page_done"
    /\ UNCHANGED <<urlIdx, ctx, cancelLog, runError, renderedHTML, linkIdx,
                   attempts, seed, urls, htmlContent, parseError, pdfUrls>>
    /\ UNCHANGED fetchVars
    /\ UNCHANGED pipeIdle

\* on to the next url
MainNextUrl ==
    /\ pc = "page_done"
    /\ urlIdx' = urlIdx + 1
    /\ pc' = "loop"
    /\ UNCHANGED <<ctx, cancelLog, runError, renderedHTML, linkIdx,
                   attempts, seed, urls, htmlContent, parseError, pdfUrls>>
    /\ UNCHANGED fetchVars
    /\ UNCHANGED pipeIdle

\* the range loop over urls ends and main returns
MainExit ==
    /\ pc = "loop"
    /\ urlIdx > Len(urls)
    /\ pc' = "exit"
    /\ UNCHANGED <<urlIdx, ctx, cancelLog, runError, renderedHTML, linkIdx,
                   attempts, seed, urls, htmlContent, parseError, pdfUrls>>
    /\ UNCHANGED fetchVars
    /\ UNCHANGED pipeIdle

----------------------------------------------------------------------------
(* Specifications.  Each leaves the parts it does not use at rest.          *)

MaxSeeds == 2

MaxSlice == 4

MaxUrlLen == 5

MaxNodes == 3

SanChars == {"P", "d", "f", "t", "x", ".", "_", "/", "?", "#"}

RECURSIVE SeqsUpTo(_, _)
SeqsUpTo(S, n) ==
    IF n = 0 THEN {<<>>}
    ELSE LET shorter == SeqsUpTo(S, n - 1)
         IN  shorter \cup {Append(s, c) : s \in {t \in shorter : Len(t) = n - 1}, c \in S}

SanIdle == sanUrl = <<>> /\ sanName = <<>> /\ sanPc = "idle"

DdIdle == seed = <<>> /\ urls = <<>> /\ urlsAgain = <<>> /\ ddPc = "idle"

ExIdle ==
    /\ htmlContent = EmptyDoc
    /\ parseError = FALSE
    /\ pdfUrls = <<>>
    /\ exPc = "idle"

FetchIdle == store = EmptyStore /\ last = NoCall /\ prev = NoPrev

MainIdle ==
    /\ pc = "idle"
    /\ urlIdx = 1
    /\ ctx = NoContexts
    /\ cancelLog = <<>>
    /\ runError = "nil"
    /\ renderedHTML = EmptyDoc
    /\ linkIdx = 1
    /\ attempts = <<>>

\* the pipeline: main from its first statement, over every seed list
Init ==
    /\ seed \in SeqsUpTo(SeedUrls, MaxSeeds)
    /\ urls = <<>>
    /\ urlsAgain = <<>>
    /\ ddPc = "idle"
    /\ SanIdle
    /\ ExIdle
    /\ FetchIdle
    /\ pc = "start"
    /\ urlIdx = 1
    /\ ctx = NoContexts
    /\ cancelLog = <<>>
    /\ runError = "nil"
    /\ renderedHTML = EmptyDoc
    /\ linkIdx = 1
    /\ attempts = <<>>

Next ==
    \/ MainDedup
    \/ MainSkipInvalid
    \/ ScrapeBegin
    \/ ScrapeNavigate
    \/ ScrapeSleep
    \/ ScrapeOuterHTML
    \/ ScrapeReturn
    \/ MainExtract
    \/ MainDownload
    \/ MainPageDone
    \/ MainNextUrl
    \/ MainExit

Spec == Init /\ [][Next]_vars

\* the sanitizer alone, on every url over SanChars up to MaxUrlLen
Sanitize ==
    /\ sanPc = "input"
    /\ sanName' = urlToFilename(sanUrl)
    /\ sanPc' = "done"
    /\ UNCHANGED <<sanUrl, ddVars, exVars, fetchVars, mainVars>>

SanInit ==
    /\ sanUrl \in SeqsUpTo(SanChars, MaxUrlLen)
    /\ sanName = <<>>
    /\ sanPc = "input"
    /\ DdIdle
    /\ ExIdle
    /\ FetchIdle
    /\ MainIdle

SanNext == Sanitize

SpecSanitize == SanInit /\ [][SanNext]_vars

\* the deduplication alone, on every slice over SeedUrls up to MaxSlice
DedupOnce ==
    /\ ddPc = "input"
    /\ urls' = removeDuplicatesFromSlice(seed)
    /\ ddPc' = "once"
    /\ UNCHANGED <<seed, urlsAgain, sanVars, exVars, fetchVars, mainVars>>

DedupTwice ==
    /\ ddPc = "once"
    /\ urlsAgain' = removeDuplicatesFromSlice(urls)
    /\ ddPc' = "twice"
    /\ UNCHANGED <<seed, urls, sanVars, exVars, fetchVars, mainVars>>

DedupInit ==
    /\ seed \in SeqsUpTo(SeedUrls, MaxSlice)
    /\ urls = <<>>
    /\ urlsAgain = <<>>
    /\ ddPc = "input"
    /\ SanIdle
    /\ ExIdle
    /\ FetchIdle
    /\ MainIdle

DedupNext == DedupOnce \/ DedupTwice

SpecDedup == DedupInit /\ [][DedupNext]_vars

\* the extractor alone, on every tree of up to MaxNodes nodes under the
\* document node
NodeKinds ==
    {Elem("a", <<Href(UrlUpper)>>, 0),
     Elem("a", <<Href(HrefSpaced)>>, 0),
     Elem("a", <<Href(HrefHtml)>>, 0),
     Elem("a", <<Href(HrefNoDot)>>, 0),
     Elem("a", <<Attribute("", "title", UrlOther)>>, 0),
     Elem("a", <<Attribute("xlink", "href", UrlOther), Href(UrlUpper)>>, 0),
     Elem("div", <<>>, 0),
     Elem("link", <<Href(UrlOther)>>, 0),
     Text("a", 0)}

\* the parser appends a node as the last child of an open node
AddNode ==
    /\ exPc = "build"
    /\ Len(htmlContent) <= MaxNodes
    /\ \E k \in NodeKinds, par \in 1..Len(htmlContent) :
          /\ htmlContent[par].Type # "TextNode"
          /\ htmlContent' = Append(htmlContent, [k EXCEPT !.parent = par])
    /\ UNCHANGED <<parseError, pdfUrls, exPc, sanVars, ddVars, fetchVars, mainVars>>

Extract ==
    /\ exPc = "build"
    /\ parseError' \in BOOLEAN
    /\ pdfUrls' = extractPDFUrls(htmlContent, parseError')
    /\ exPc' = "done"
    /\ UNCHANGED <<htmlContent, sanVars, ddVars, fetchVars, mainVars>>

ExtractInit ==
    /\ htmlContent = <<DocNode>>
    /\ parseError = FALSE
    /\ pdfUrls = <<>>
    /\ exPc = "build"
    /\ SanIdle
    /\ DdIdle
    /\ FetchIdle
    /\ MainIdle

ExtractNext == AddNode \/ Extract

SpecExtract == ExtractInit /\ [][ExtractNext]_vars

\* the fetcher alone: any sequence of calls over FetchUrls and Responses
FetchCall ==
    /\ \E u \in FetchUrls, r \in Responses : Download(u, r)
    /\ UNCHANGED <<sanVars, ddVars, exVars, mainVars>>

FetchInit ==
    /\ FetchIdle
    /\ SanIdle
    /\ DdIdle
    /\ ExIdle
    /\ MainIdle

FetchNext == FetchCall

SpecFetch == FetchInit /\ [][FetchNext]_vars

----------------------------------------------------------------------------
(* Properties of the fetcher, under SpecFetch.                              *)

\* C1: when a call has just written the file of a url, the next call with
\* the same url ends at the existence check: it is skipped, issues no
\* request, writes nothing, and the file keeps the content the first call
\* gave it.
C1_SecondCallSkipped ==
    (last.called /\ prev.called /\ prev.changed /\ prev.url = last.url)
    => /\ last.outcome = "skipped"
       /\ ~last.requested
       /\ ~last.ret
       /\ ~last.changed
       /\ last.before.exists
       /\ last.after = last.before

C1_Witness ==
    /\ last.called /\ prev.called /\ prev.changed /\ prev.ret
    /\ prev.url = last.url
    /\ last.outcome = "skipped"

\* C2: no step changes or removes a file that exists, and a call that
\* finds a file at its destination path is skipped and writes nothing,
\* also when the file came from another url with the same sanitized name.
C2_NeverOverwritten ==
    [][/\ \A p \in DOMAIN store : p \in DOMAIN store' /\ store'[p] = store[p]
       /\ (last'.called /\ last'.before.exists)
          => (last'.outcome = "skipped" /\ ~last'.changed)]_vars

C2_Witness ==
    /\ prev.called /\ prev.changed /\ prev.url = UrlUpper
    /\ last.called /\ last.url = UrlQuery
    /\ last.outcome = "skipped"
    /\ Cardinality(DOMAIN store) = 1

\* the claim's side of the content-type gate: the declared type holds
\* neither "application/pdf" nor "binary/octet-stream"
Status200(call) ==
    call.called /\ call.requested /\ ~call.resp.requestError
    /\ call.resp.StatusCode = 200

DeclaresPdfOrBinary(call) ==
    \/ Contains(call.resp.ContentType, CtPdf)
    \/ Contains(call.resp.ContentType, CtBinary)

\* C3: a 200 response whose content type holds neither marker makes the
\* call report failure and leaves the directory as it was, with no file at
\* the destination path, whatever the body.
C3_ContentTypeGate ==
    (Status200(last) /\ ~DeclaresPdfOrBinary(last))
    => /\ ~last.ret
       /\ last.outcome = "bad_content_type"
       /\ ~last.changed
       /\ ~last.after.exists

C3_Witness ==
    /\ Status200(last)
    /\ last.resp.ContentType = CtHtml
    /\ last.resp.Body = <<1, 2>>
    /\ ~last.ret

\* C4: a 200 response of an accepted content type with an empty body,
\* read without error, makes the call report failure and create no file.
C4_ZeroByteGate ==
    (Status200(last) /\ DeclaresPdfOrBinary(last)
       /\ ~last.resp.copyError /\ last.resp.Body = <<>>)
    => /\ ~last.ret
       /\ last.outcome = "empty_body"
       /\ ~last.changed
       /\ ~last.after.exists

C4_Witness ==
    /\ Status200(last)
    /\ last.resp.ContentType = CtPdf
    /\ last.resp.Body = <<>>
    /\ last.outcome = "empty_body"

\* a response that reached the file creation: status 200, an accepted
\* content type, and a body read whole and not empty
PassedGates(call) ==
    /\ Status200(call)
    /\ DeclaresPdfOrBinary(call)
    /\ ~call.resp.copyError
    /\ call.resp.Body # <<>>

\* the files a step puts into the directory or alters
Touched(files, files2) ==
    {p \in DOMAIN files2 : p \notin DOMAIN files \/ files2[p] # files[p]}

\* C11 as amended: from an empty directory, a file enters the directory
\* only at the destination path of a call whose response was a 200 of an
\* accepted content type with a non-empty body read without error, and it
\* is never altered afterwards; it holds the complete body when the write
\* succeeded (the call returns true), and the part of the body written
\* before the failure, possibly nothing, when the write failed (the call
\* returns false).
C11_FilesHoldBodyOrWrittenPart ==
    [][/\ \A p \in DOMAIN store : p \in DOMAIN store'
       /\ \A p \in Touched(store, store') :
            /\ p \notin DOMAIN store
            /\ p = last'.path
            /\ PassedGates(last')
            /\ IF last'.resp.writeError
               THEN /\ ~last'.ret
                    /\ last'.outcome = "write_failed"
                    /\ HasPrefix(last'.resp.Body, store'[p])
               ELSE /\ last'.ret
                    /\ last'.outcome = "success"
                    /\ store'[p] = last'.resp.Body]_vars

\* a failed write has left an empty file beside a complete one
C11_Witness ==
    /\ last.called /\ last.outcome = "write_failed" /\ ~last.ret
    /\ PassedGates(last)
    /\ last.after.exists /\ last.after.data = <<>>
    /\ \E p \in DOMAIN store : p # last.path /\ store[p] \in Bodies \ {<<>>}

\* C11: from an empty output directory, after any sequence of downloadPDF
\* calls with any outcomes, every file in the directory is non-empty and
\* holds the complete body of a status-200 response that passed the
\* content-type check.
C11_StoreContentInvariant ==
    \A p \in DOMAIN store :
        /\ store[p] # <<>>
        /\ \E r \in Responses :
              /\ ~r.requestError
              /\ r.StatusCode = 200
              /\ ContentTypeAccepted(r.ContentType)
              /\ r.Body = store[p]
        /\ (last.called /\ last.changed /\ p = last.path)
           => (PassedGates(last) /\ store[p] = last.resp.Body)

----------------------------------------------------------------------------
(* Properties of the pipeline, under Spec.                                  *)

AllCancelled == [allocator |-> "released", timeout |-> "released", browser |-> "released"]

\* scrapePageHTMLWithChrome has returned to main for the current page
ScrapeReturned == pc \in {"extract", "download", "page_done"}

\* C5: no attempt is made while the page is rendered and its links are
\* extracted; during the download loop the attempts made are the links
\* before linkIdx, in order, whatever the attempts returned; and when the
\* page is finished the attempts are exactly the extracted links.
C5_AttemptsFollowLinks ==
    /\ pc \in {"navigate", "sleep", "capture", "return", "extract"}
          => attempts = <<>>
    /\ attempts # <<>> => (ctx = AllCancelled /\ Len(cancelLog) = 3)
    /\ pc = "download"
          => /\ linkIdx <= Len(pdfUrls) + 1
             /\ attempts = SubSeq(pdfUrls, 1, linkIdx - 1)
    /\ pc = "page_done"
          => /\ attempts = pdfUrls
             /\ pdfUrls = extractPDFUrls(htmlContent, parseError)

\* a finished page with a repeated link: the first attempt returned false
\* (it failed) and the second, for the same link, was made and succeeded
C5_Witness ==
    /\ pc = "page_done"
    /\ attempts = <<UrlOther, UrlOther>>
    /\ pdfUrls = attempts
    /\ prev.called /\ prev.url = UrlOther /\ ~prev.ret
    /\ last.called /\ last.url = UrlOther /\ last.ret

\* C10 as amended: once scrapePageHTMLWithChrome has returned, on every
\* path, the three cancel functions have been called, in the order
\* browser session, timeout, allocator, and every context is released.
C10_TeardownBrowserFirst ==
    ScrapeReturned
    => /\ cancelLog = <<"browser", "timeout", "allocator">>
       /\ ctx = AllCancelled

\* the return through an expired timeout context, with nothing captured
C10_Witness ==
    /\ ScrapeReturned
    /\ runError = "deadline_exceeded"
    /\ htmlContent = EmptyDoc
    /\ ctx = AllCancelled

\* C10 as claimed: the contexts are released in the order allocator,
\* timeout, browser session.
C10_TeardownAllocatorFirst ==
    ScrapeReturned
    => /\ cancelLog = <<"allocator", "timeout", "browser">>
       /\ ctx = AllCancelled

----------------------------------------------------------------------------
(* Properties of the seed deduplication, under SpecDedup.                   *)

FirstIndex(s, x) == CHOOSE i \in 1..Len(s) : s[i] = x /\ \A j \in 1..(i - 1) : s[j] # x

\* C9: the result has pairwise distinct elements, holds exactly the elements
\* of the input, orders them by their first occurrence in the input, and a
\* second application returns it unchanged.
C9_DedupFirstOccurrence ==
    /\ ddPc \in {"once", "twice"}
          => /\ \A i, j \in 1..Len(urls) : i # j => urls[i] # urls[j]
             /\ Range(urls) = Range(seed)
             /\ \A i, j \in 1..Len(urls) :
                   i < j => FirstIndex(seed, urls[i]) < FirstIndex(seed, urls[j])
    /\ ddPc = "twice" => urlsAgain = urls

\* an input with a repeated element between two others
C9_Witness ==
    /\ ddPc = "twice"
    /\ Len(seed) = 4
    /\ seed[1] = seed[3] /\ seed[1] # seed[2] /\ seed[4] # seed[1] /\ seed[4] # seed[2]
    /\ Len(urls) = 3

----------------------------------------------------------------------------
(* Properties of the sanitizer, under SpecSanitize.                         *)

\* C7: the returned name holds only lower-case letters, digits, underscores
\* and at most one dot.
C7_OutputAlphabet ==
    sanPc = "done"
    => /\ \A i \in 1..Len(sanName) : sanName[i] \in AlnumLower \cup {"_", "."}
       /\ Cardinality({i \in 1..Len(sanName) : sanName[i] = "."}) <= 1

\* C8: the returned name holds none of "_pdf", "_zip", "_txt".
C8_NoExtensionEcho ==
    sanPc = "done"
    => \A k \in 1..Len(invalidSubstrings) : ~Contains(sanName, invalidSubstrings[k])

----------------------------------------------------------------------------
(* Properties of the extractor, under SpecExtract.                          *)

IsAnchor(node) == node.Type = "ElementNode" /\ node.Data = "a"

\* the claim's side of the match: the href value holds ".pdf" in any case
HoldsMarker(val) == Contains(ToLower(val), PdfMarker)

\* the anchors with an href attribute holding the marker
MatchingAnchors(tree) ==
    {n \in 1..Len(tree) :
        /\ IsAnchor(tree[n])
        /\ \E k \in 1..Len(tree[n].Attr) :
              tree[n].Attr[k].Key = "href" /\ HoldsMarker(tree[n].Attr[k].Val)}

\* the href attributes of anchors holding the marker: <<node, attribute>>
MatchingHrefs(tree) ==
    {nk \in UNION {{<<n, k>> : k \in 1..Len(tree[n].Attr)} : n \in 1..Len(tree)} :
        /\ IsAnchor(tree[nk[1]])
        /\ tree[nk[1]].Attr[nk[2]].Key = "href"
        /\ HoldsMarker(tree[nk[1]].Attr[nk[2]].Val)}

\* the nodes from the document node down to n
RECURSIVE PathTo(_, _)
PathTo(tree, n) ==
    IF tree[n].parent = 0 THEN <<n>> ELSE Append(PathTo(tree, tree[n].parent), n)

\* document order: an ancestor stands before its descendants, and
\* otherwise the order is that of the two branches under the last common
\* ancestor
DocBefore(tree, n, m) ==
    LET p == PathTo(tree, n)
        q == PathTo(tree, m)
    IN  \/ Len(p) < Len(q) /\ SubSeq(q, 1, Len(p)) = p
        \/ \E i \in 1..Len(p) :
              /\ i <= Len(q)
              /\ SubSeq(p, 1, i - 1) = SubSeq(q, 1, i - 1)
              /\ p[i] < q[i]

HrefBefore(tree, a, b) ==
    \/ a[1] = b[1] /\ a[2] < b[2]
    \/ a[1] # b[1] /\ DocBefore(tree, a[1], b[1])

\* C6 as amended: without a parse error, the result holds one link for
\* each href attribute of an anchor whose value holds the marker in any
\* letter case; the link is the trimmed value, and the links stand in
\* document order (depth first, children in order), those of one anchor in
\* attribute order; duplicates are kept.
C6_OneLinkPerMatchingHref ==
    (exPc = "done" /\ ~parseError)
    => LET hrefs == MatchingHrefs(htmlContent)
       IN  /\ Len(pdfUrls) = Cardinality(hrefs)
           /\ \A a \in hrefs :
                 LET rank == 1 + Cardinality({b \in hrefs : HrefBefore(htmlContent, b, a)})
                 IN  /\ rank <= Len(pdfUrls)
                     /\ pdfUrls[rank] = TrimSpace(htmlContent[a[1]].Attr[a[2]].Val)

\* a tree where document order is not node order: the anchor added last
\* lies under the div and gives the first link, trimmed; the markers are
\* ".Pdf" and ".PDF"
C6_Witness ==
    /\ exPc = "done" /\ ~parseError
    /\ Len(htmlContent) = 4
    /\ htmlContent[2] = Elem("div", <<>>, 1)
    /\ htmlContent[3] = Elem("a", <<Href(UrlUpper)>>, 1)
    /\ htmlContent[4] = Elem("a", <<Href(HrefSpaced)>>, 2)
    /\ pdfUrls = <<TrimSpace(HrefSpaced), UrlUpper>>

\* C6 as claimed: N anchors with a matching href give exactly N links.
C6_OneLinkPerAnchor ==
    (exPc = "done" /\ ~parseError)
    => Len(pdfUrls) = Cardinality(MatchingAnchors(htmlContent))

====
